---- MODULE Spec2Model ----
(***************************************************************************)
(* pdbview / ezpdb: type-graph resolution (handle_type, handle_type_data   *)
(* and the per-kind TryFrom constructors), the completion pass             *)
(* (on_complete), the size engine (type_size), symbol handling            *)
(* (handle_symbol) and the plain-text printing of global data.             *)
(*                                                                         *)
(* A run is one call of parse_pdb on one PDB followed by print_plain.  The *)
(* PDB (its type stream) is chosen in Init; the symbol stream is produced  *)
(* record by record by the decoder.                                        *)
(***************************************************************************)
EXTENDS Integers, Sequences, FiniteSets, TLC

VARIABLES
    records,      \* the type finder: type index -> raw record
    types,        \* output_pdb.types: type index -> node (HashMap)
    heap,         \* every Rc<RefCell<Type>> allocated so far; a node's id is its position
    stack,        \* activation records of handle_type / handle_type_data
    ret,          \* the Result travelling from a callee to its caller
    phase,        \* where parse_pdb / main is
    next,         \* loop position inside the current phase
    order,        \* iteration order of the HashMap `types`
    global_data,  \* output_pdb.global_data: the kept Data symbols
    printed,      \* the "Size:" values print_plain wrote for the globals
    base_address, \* the base_address argument of parse_pdb (Option<usize>)
    address_map,  \* whether pdb.address_map() gave a map
    symbols,      \* the symbol records the symbol iterators have yielded so far
    public_symbols, \* output_pdb.public_symbols
    procedures,   \* output_pdb.procedures
    assembly_info, \* output_pdb.assembly_info: build_info and compiler_info
    id_finder,    \* whether pdb.id_information() gave an ID stream
    decoded       \* how many times handle_type has run typ.parse() on each index's record

\* what only the symbol loops read and write
symvars ==
    <<base_address, address_map, symbols, public_symbols, procedures,
      assembly_info, id_finder>>

vars == <<records, types, heap, stack, ret, phase, next, order, global_data, printed, symvars, decoded>>

(***************************************************************************)
(* Bounds of the model.                                                    *)
(***************************************************************************)
MaxDepth == 8      \* call-stack frames available before the stack overflows
MaxDims == 2       \* dimensions of an array record
MaxInline == 3     \* inline fields of one FieldList record
MaxChain == 2      \* FieldList records linked by continuation
MaxSymbols == 2    \* symbol records in the symbol streams
MaxData == 1       \* symbol records read in the runs over every type-stream family

(***************************************************************************)
(* Raw records (pdb::TypeData).  0 stands for an absent Option<TypeIndex>, *)
(* NoName for an absent unique_name.                                       *)
(***************************************************************************)
NoName == "<none>"

BlankRec ==
    [kind |-> "None", prim |-> "NoType", indirection |-> "None",
     pointer_kind |-> "None", underlying_type |-> 0, fields |-> 0,
     derived_from |-> 0, continuation |-> 0, inl |-> <<>>, count |-> 0,
     forward_reference |-> FALSE, unique_name |-> NoName, size |-> 0,
     dimensions |-> <<>>, name |-> <<>>, element_type |-> 0,
     indexing_type |-> 0, base_pointer |-> 0, return_type |-> 0,
     class_type |-> 0, this_pointer_type |-> 0, argument_list |-> 0,
     arguments |-> <<>>]

PrimitiveRec(k, ind) ==
    [BlankRec EXCEPT !.kind = "Primitive", !.prim = k, !.indirection = ind]

PointerRec(u, pk) ==
    [BlankRec EXCEPT !.kind = "Pointer", !.underlying_type = u, !.pointer_kind = pk]

ModifierRec(u) ==
    [BlankRec EXCEPT !.kind = "Modifier", !.underlying_type = u]

ClassRec(f, d, fwd, un, sz) ==
    [BlankRec EXCEPT !.kind = "Class", !.fields = f, !.derived_from = d,
                     !.forward_reference = fwd, !.unique_name = un, !.size = sz]

UnionRec(f, c, fwd, un, sz) ==
    [BlankRec EXCEPT !.kind = "Union", !.fields = f, !.count = c,
                     !.forward_reference = fwd, !.unique_name = un, !.size = sz]

ArrayRec(e, i, dims) ==
    [BlankRec EXCEPT !.kind = "Array", !.element_type = e, !.indexing_type = i,
                     !.dimensions = dims]

MemberRec(nm, t) ==
    [BlankRec EXCEPT !.kind = "Member", !.name = nm, !.underlying_type = t]

FieldListRec(fs, c) ==
    [BlankRec EXCEPT !.kind = "FieldList", !.inl = fs, !.continuation = c]

\* the records that carry one type index (underlying_type, base_class,
\* nested_type, method_list, method_type, field_type, table), kept in
\* underlying_type
SingleKinds ==
    {"Bitfield", "Enumeration", "BaseClass", "Nested", "OverloadedMethod",
     "Method", "StaticMember", "VTable"}

SingleRec(kind, u) == [BlankRec EXCEPT !.kind = kind, !.underlying_type = u]

VirtualBaseClassRec(b, p) ==
    [BlankRec EXCEPT !.kind = "VirtualBaseClass", !.underlying_type = b,
                     !.base_pointer = p]

\* TypeData::Enumerate
EnumVariantRec == [BlankRec EXCEPT !.kind = "EnumVariant"]

ArgumentListRec(args) == [BlankRec EXCEPT !.kind = "ArgumentList", !.arguments = args]

\* methods: the method_type of each entry
MethodListRec(methods) == [BlankRec EXCEPT !.kind = "MethodList", !.arguments = methods]

ProcedureRec(r, a) ==
    [BlankRec EXCEPT !.kind = "Procedure", !.return_type = r, !.argument_list = a]

MemberFunctionRec(r, c, t, a) ==
    [BlankRec EXCEPT !.kind = "MemberFunction", !.return_type = r, !.class_type = c,
                     !.this_pointer_type = t, !.argument_list = a]

\* a record whose parse() fails with pdb::Error::UnimplementedTypeKind
UnimplementedRec == [BlankRec EXCEPT !.kind = "Unimplemented"]
\* a record whose parse() fails with another pdb::Error (truncated record)
MalformedRec == [BlankRec EXCEPT !.kind = "Malformed"]
\* a record that parses to a TypeData variant handle_type_data has no arm for
OtherRec == [BlankRec EXCEPT !.kind = "Other"]

(***************************************************************************)
(* Nodes (type_info::Type inside Rc<RefCell<..>>).  Node references are    *)
(* heap positions; 0 is an absent Option<TypeRef>.  `origin` remembers the *)
(* type index handle_type was resolving when it built the node (0 for a    *)
(* node built from an inline record by handle_type_data alone).            *)
(***************************************************************************)
BlankNode ==
    [kind |-> "None", origin |-> 0, prim |-> "NoType", indirection |-> "None",
     pointer_kind |-> "None", underlying_type |-> 0, fields |-> <<>>,
     derived_from |-> 0, count |-> 0, forward_reference |-> FALSE,
     unique_name |-> NoName, size |-> 0, dimensions_bytes |-> <<>>,
     dimensions_elements |-> <<>>, name |-> <<>>, element_type |-> 0,
     indexing_type |-> 0, base_pointer |-> 0, return_type |-> 0,
     class_type |-> 0, this_pointer_type |-> 0, arguments |-> <<>>]

Last(s) == s[Len(s)]

\* Results: Result<TypeRef, Error> in flight, and usize-or-panic of type_size
NoRet == [tag |-> "none", node |-> 0, err |-> "none"]
OkRet(n) == [tag |-> "ok", node |-> n, err |-> "none"]
ErrRet(e) == [tag |-> "err", node |-> 0, err |-> e]

(***************************************************************************)
(* The resolve calls a constructor makes, in source order.  tag: "idx" is  *)
(* crate::handle_type(index), "inl" is crate::handle_type_data on the     *)
(* tgt-th inline record of the FieldList.  pol is what the constructor does with an Err: "try" is the ? operator,  *)
(* "expect" is .expect(..), "ok" is .ok().  want names the node kind the   *)
(* constructor insists on (it panics on any other).                        *)
(***************************************************************************)
Dep(tag, tgt, pol, want) == [tag |-> tag, tgt |-> tgt, pol |-> pol, want |-> want]

NoDep == Dep("none", 0, "none", "any")

ClassDeps(rec) ==
    (IF rec.fields # 0 THEN <<Dep("idx", rec.fields, "expect", "FieldList")>> ELSE <<>>)
    \o (IF rec.derived_from # 0 THEN <<Dep("idx", rec.derived_from, "expect", "any")>> ELSE <<>>)

FieldListDeps(rec) ==
    [k \in 1..Len(rec.inl) |-> Dep("inl", k, "try", "any")]
    \o (IF rec.continuation # 0
        THEN <<Dep("idx", rec.continuation, "try", "FieldList")>> ELSE <<>>)

ProcedureDeps(rec) ==
    (IF rec.return_type # 0 THEN <<Dep("idx", rec.return_type, "try", "any")>> ELSE <<>>)
    \o <<Dep("idx", rec.argument_list, "try", "ArgumentList")>>

MemberFunctionDeps(rec) ==
    <<Dep("idx", rec.return_type, "try", "any"), Dep("idx", rec.class_type, "try", "any")>>
    \o (IF rec.this_pointer_type # 0
        THEN <<Dep("idx", rec.this_pointer_type, "try", "any")>> ELSE <<>>)
    \o <<Dep("idx", rec.argument_list, "try", "ArgumentList")>>

Deps(rec) ==
    CASE rec.kind = "Class" -> ClassDeps(rec)
      [] rec.kind = "Union" -> <<Dep("idx", rec.fields, "try", "any")>>
      [] rec.kind = "Pointer" -> <<Dep("idx", rec.underlying_type, "ok", "any")>>
      [] rec.kind = "Modifier" -> <<Dep("idx", rec.underlying_type, "try", "any")>>
      [] rec.kind = "Member" -> <<Dep("idx", rec.underlying_type, "try", "any")>>
      [] rec.kind = "Array" -> <<Dep("idx", rec.element_type, "try", "any"),
                                 Dep("idx", rec.indexing_type, "try", "any")>>
      [] rec.kind = "FieldList" -> FieldListDeps(rec)
      [] rec.kind \in SingleKinds ->
           <<Dep("idx", rec.underlying_type,
                 IF rec.kind \in {"StaticMember", "VTable"} THEN "expect" ELSE "try",
                 "any")>>
      [] rec.kind = "VirtualBaseClass" ->
           <<Dep("idx", rec.underlying_type, "expect", "any"),
             Dep("idx", rec.base_pointer, "expect", "any")>>
      [] rec.kind \in {"ArgumentList", "MethodList"} ->
           [k \in 1..Len(rec.arguments) |-> Dep("idx", rec.arguments[k], "try", "any")]
      [] rec.kind = "Procedure" -> ProcedureDeps(rec)
      [] rec.kind = "MemberFunction" -> MemberFunctionDeps(rec)
      [] OTHER -> <<>>

(***************************************************************************)
(* The constructors: the node built from a record once its resolve calls   *)
(* have returned got (one node per call, 0 where .ok() swallowed an Err).  *)
(***************************************************************************)
ClassFrom(rec, got, h) ==
    [BlankNode EXCEPT !.kind = "Class",
        !.fields = IF rec.fields # 0 THEN h[got[1]].fields ELSE <<>>,
        !.derived_from = IF rec.derived_from # 0 THEN Last(got) ELSE 0,
        !.forward_reference = rec.forward_reference,
        !.unique_name = rec.unique_name, !.size = rec.size]

\* the Union constructor that takes the fields whatever the declared count
UnionFromIgnoresCount(rec, got, h) ==
    [BlankNode EXCEPT !.kind = "Union",
        !.fields = IF h[got[1]].kind = "FieldList"
                   THEN h[got[1]].fields ELSE <<got[1]>>,
        !.count = rec.count, !.forward_reference = rec.forward_reference,
        !.unique_name = rec.unique_name, !.size = rec.size]

UnionFrom(rec, got, h) ==
    [BlankNode EXCEPT !.kind = "Union",
        !.fields = IF rec.count > 0
                   THEN IF h[got[1]].kind = "FieldList"
                        THEN h[got[1]].fields ELSE <<got[1]>>
                   ELSE <<>>,
        !.count = rec.count, !.forward_reference = rec.forward_reference,
        !.unique_name = rec.unique_name, !.size = rec.size]

PointerFrom(rec, got, h) ==
    [BlankNode EXCEPT !.kind = "Pointer", !.underlying_type = got[1],
        !.pointer_kind = rec.pointer_kind]

PrimitiveFrom(rec, got, h) ==
    [BlankNode EXCEPT !.kind = "Primitive", !.prim = rec.prim,
        !.indirection = rec.indirection]

ArrayFrom(rec, got, h) ==
    [BlankNode EXCEPT !.kind = "Array", !.element_type = got[1],
        !.indexing_type = got[2], !.size = Last(rec.dimensions),
        !.dimensions_bytes = rec.dimensions, !.dimensions_elements = <<>>]

\* the FieldList constructor putting the continuation's fields first
FieldListFromContinuationFirst(rec, got, h) ==
    [BlankNode EXCEPT !.kind = "FieldList",
        !.fields = (IF rec.continuation # 0 THEN h[Last(got)].fields ELSE <<>>)
                   \o SubSeq(got, 1, Len(rec.inl))]

FieldListFrom(rec, got, h) ==
    [BlankNode EXCEPT !.kind = "FieldList",
        !.fields = SubSeq(got, 1, Len(rec.inl))
                   \o (IF rec.continuation # 0 THEN h[Last(got)].fields ELSE <<>>)]

ModifierFrom(rec, got, h) ==
    [BlankNode EXCEPT !.kind = "Modifier", !.underlying_type = got[1]]

MemberFrom(rec, got, h) ==
    [BlankNode EXCEPT !.kind = "Member", !.underlying_type = got[1],
        !.name = rec.name]

\* Bitfield, Enumeration, BaseClass, Nested, OverloadedMethod, Method,
\* StaticMember, VTable
SingleFrom(rec, got, h) ==
    [BlankNode EXCEPT !.kind = rec.kind, !.underlying_type = got[1]]

VirtualBaseClassFrom(rec, got, h) ==
    [BlankNode EXCEPT !.kind = "VirtualBaseClass", !.underlying_type = got[1],
        !.base_pointer = got[2]]

EnumVariantFrom(rec, got, h) == [BlankNode EXCEPT !.kind = "EnumVariant"]

\* ArgumentList and MethodList: one resolved node per entry
ListFrom(rec, got, h) == [BlankNode EXCEPT !.kind = rec.kind, !.arguments = got]

ProcedureFrom(rec, got, h) ==
    [BlankNode EXCEPT !.kind = "Procedure",
        !.return_type = IF rec.return_type # 0 THEN got[1] ELSE 0,
        !.arguments = h[Last(got)].arguments]

MemberFunctionFrom(rec, got, h) ==
    [BlankNode EXCEPT !.kind = "MemberFunction",
        !.return_type = got[1], !.class_type = got[2],
        !.this_pointer_type = IF rec.this_pointer_type # 0 THEN got[3] ELSE 0,
        !.arguments = h[Last(got)].arguments]

HandledKinds ==
    {"Class", "Union", "Pointer", "Primitive", "Array", "FieldList",
     "Modifier", "Member", "VirtualBaseClass", "EnumVariant", "ArgumentList",
     "MethodList", "Procedure", "MemberFunction"} \cup SingleKinds

Construct(rec, got, h) ==
    CASE rec.kind = "Class" -> ClassFrom(rec, got, h)
      [] rec.kind = "Union" -> UnionFrom(rec, got, h)
      [] rec.kind = "Pointer" -> PointerFrom(rec, got, h)
      [] rec.kind = "Primitive" -> PrimitiveFrom(rec, got, h)
      [] rec.kind = "Array" -> ArrayFrom(rec, got, h)
      [] rec.kind = "FieldList" -> FieldListFrom(rec, got, h)
      [] rec.kind = "Modifier" -> ModifierFrom(rec, got, h)
      [] rec.kind = "Member" -> MemberFrom(rec, got, h)
      [] rec.kind \in SingleKinds -> SingleFrom(rec, got, h)
      [] rec.kind = "VirtualBaseClass" -> VirtualBaseClassFrom(rec, got, h)
      [] rec.kind = "EnumVariant" -> EnumVariantFrom(rec, got, h)
      [] rec.kind \in {"ArgumentList", "MethodList"} -> ListFrom(rec, got, h)
      [] rec.kind = "Procedure" -> ProcedureFrom(rec, got, h)
      [] rec.kind = "MemberFunction" -> MemberFunctionFrom(rec, got, h)

\* TryFrom<&pdb::PrimitiveKind>: a kind the enum does not list is an Err
ConstructError(rec) ==
    IF rec.kind = "Primitive" /\ rec.prim = "Unknown" THEN "UnhandledType" ELSE "none"

\* typ.parse(): the decoder's verdict on a raw record
ParseError(rec) ==
    CASE rec.kind = "Unimplemented" -> "UnimplementedTypeKind"
      [] rec.kind = "Malformed" -> "UnexpectedEof"
      [] OTHER -> "none"

(***************************************************************************)
(* parse_pdb, first loop: discovered_types is every index of the type      *)
(* stream in file order.  Primitive types are not records of the stream    *)
(* (the finder synthesises them), so they are resolved only on reference.  *)
(***************************************************************************)
RECURSIVE Ascending(_)
Ascending(S) ==
    IF S = {} THEN <<>>
    ELSE LET m == CHOOSE x \in S : \A y \in S : x <= y
         IN <<m>> \o Ascending(S \ {m})

discovered_types == Ascending({i \in DOMAIN records : records[i].kind # "Primitive"})

Top == stack[Len(stack)]
Pop == SubSeq(stack, 1, Len(stack) - 1)

Frame(i, rec) == [idx |-> i, rec |-> rec, got |-> <<>>]

\* the resolve call the running code is about to make
PendingCall ==
    IF ret # NoRet THEN NoDep
    ELSE IF stack # <<>>
         THEN IF Len(Top.got) < Len(Deps(Top.rec))
              THEN Deps(Top.rec)[Len(Top.got) + 1] ELSE NoDep
         ELSE IF phase = "load" /\ next <= Len(discovered_types)
              THEN Dep("idx", discovered_types[next], "loop", "any") ELSE NoDep

\* handle_type without its early return: every lookup misses
CacheLookupMisses(i) == 0

\* output_pdb.types.get(&idx.0): the cached node, 0 for None
CacheLookup(i) == IF i \in DOMAIN types THEN types[i] ELSE 0

\* type_finder.find(idx) is Ok
Found(i) == i \in DOMAIN records

Running == phase = "load"

\* handle_type: the index is cached, the shared node is returned
HandleTypeCached ==
    /\ Running /\ PendingCall.tag = "idx"
    /\ CacheLookup(PendingCall.tgt) # 0
    /\ ret' = OkRet(CacheLookup(PendingCall.tgt))
    /\ UNCHANGED <<records, types, heap, stack, phase, next, order, global_data, printed, symvars, decoded>>

\* handle_type: type_finder.find(idx).expect("failed to resolve type")
HandleTypeNotFound ==
    /\ Running /\ PendingCall.tag = "idx"
    /\ CacheLookup(PendingCall.tgt) = 0
    /\ ~Found(PendingCall.tgt)
    /\ phase' = "panicked"
    /\ UNCHANGED <<records, types, heap, stack, ret, next, order, global_data, printed, symvars, decoded>>

\* handle_type: typ.parse() runs on the record of the index asked for; an
\* inline record of a FieldList was decoded with its list
Decode ==
    IF PendingCall.tag = "idx" THEN [decoded EXCEPT ![PendingCall.tgt] = @ + 1]
    ELSE decoded

\* handle_type: typ.parse()? fails
HandleTypeParseError ==
    /\ Running /\ PendingCall.tag = "idx"
    /\ CacheLookup(PendingCall.tgt) = 0
    /\ Found(PendingCall.tgt)
    /\ ParseError(records[PendingCall.tgt]) # "none"
    /\ ret' = ErrRet(ParseError(records[PendingCall.tgt]))
    /\ decoded' = Decode
    /\ UNCHANGED <<records, types, heap, stack, phase, next, order, global_data, printed, symvars>>

\* the record handle_type / handle_type_data is about to dispatch on
CalleeRec ==
    IF PendingCall.tag = "idx" THEN records[PendingCall.tgt]
    ELSE Top.rec.inl[PendingCall.tgt]

Callable ==
    \/ /\ PendingCall.tag = "idx"
       /\ CacheLookup(PendingCall.tgt) = 0
       /\ Found(PendingCall.tgt)
       /\ ParseError(records[PendingCall.tgt]) = "none"
    \/ PendingCall.tag = "inl"

\* handle_type_data: `other => panic!("type not handled")`
HandleTypeDataUnhandled ==
    /\ Running /\ Callable
    /\ CalleeRec.kind \notin HandledKinds
    /\ phase' = "panicked"
    /\ decoded' = Decode
    /\ UNCHANGED <<records, types, heap, stack, ret, next, order, global_data, printed, symvars>>

\* handle_type / handle_type_data enter the constructor of the record
HandleTypeEnter ==
    /\ Running /\ Callable
    /\ CalleeRec.kind \in HandledKinds
    /\ Len(stack) < MaxDepth
    /\ stack' = Append(stack, Frame(IF PendingCall.tag = "idx" THEN PendingCall.tgt ELSE 0,
                                    CalleeRec))
    /\ decoded' = Decode
    /\ UNCHANGED <<records, types, heap, ret, phase, next, order, global_data, printed, symvars>>

\* the recursion has used up the stack: the process is killed
StackOverflow ==
    /\ Running /\ Callable
    /\ CalleeRec.kind \in HandledKinds
    /\ Len(stack) >= MaxDepth
    /\ phase' = "overflow"
    /\ decoded' = Decode
    /\ UNCHANGED <<records, types, heap, stack, ret, next, order, global_data, printed, symvars>>

\* handle_type_data returns Ok(Rc::new(RefCell::new(typ))) and, when called
\* from handle_type, output_pdb.types.insert(idx.0, Rc::clone(&typ))
HandleTypeReturn ==
    /\ Running /\ ret = NoRet /\ stack # <<>>
    /\ Len(Top.got) = Len(Deps(Top.rec))
    /\ IF ConstructError(Top.rec) # "none"
       THEN /\ ret' = ErrRet(ConstructError(Top.rec))
            /\ UNCHANGED <<heap, types>>
       ELSE /\ heap' = Append(heap, [Construct(Top.rec, Top.got, heap)
                                        EXCEPT !.origin = Top.idx])
            /\ types' = IF Top.idx # 0
                        THEN [i \in DOMAIN types \cup {Top.idx} |->
                                 IF i = Top.idx THEN Len(heap) + 1 ELSE types[i]]
                        ELSE types
            /\ ret' = OkRet(Len(heap) + 1)
    /\ stack' = Pop
    /\ UNCHANGED <<records, phase, next, order, global_data, printed, symvars, decoded>>

\* a constructor gets the Result of the resolve call it made
ReceiveResult ==
    /\ Running /\ ret # NoRet /\ stack # <<>>
    /\ LET d == Deps(Top.rec)[Len(Top.got) + 1]
           take(n) == [stack EXCEPT ![Len(stack)].got = Append(@, n)]
       IN IF ret.tag = "ok"
          THEN IF d.want # "any" /\ heap[ret.node].kind # d.want
               THEN /\ phase' = "panicked"
                    /\ UNCHANGED <<stack, ret>>
               ELSE /\ stack' = take(ret.node)
                    /\ ret' = NoRet
                    /\ UNCHANGED phase
          ELSE CASE d.pol = "try" -> /\ stack' = Pop
                                     /\ UNCHANGED <<ret, phase>>
                 [] d.pol = "expect" -> /\ phase' = "panicked"
                                        /\ UNCHANGED <<stack, ret>>
                 [] d.pol = "ok" -> /\ stack' = take(0)
                                    /\ ret' = NoRet
                                    /\ UNCHANGED phase
    /\ UNCHANGED <<records, types, heap, next, order, global_data, printed, symvars, decoded>>

\* the discovered_types loop going on after any error
LoadNextIgnoresErrors ==
    /\ Running /\ ret # NoRet /\ stack = <<>>
    /\ next' = next + 1
    /\ ret' = NoRet
    /\ UNCHANGED <<records, types, heap, stack, phase, order, global_data, printed, symvars, decoded>>

\* parse_pdb: the match on handle_type's Result in the discovered_types loop
LoadNext ==
    /\ Running /\ ret # NoRet /\ stack = <<>>
    /\ IF ret.tag = "ok" \/ ret.err \in {"UnimplementedTypeKind", "TypeNotFound"}
       THEN /\ next' = next + 1
            /\ UNCHANGED phase
       ELSE /\ phase' = "failed"
            /\ UNCHANGED next
    /\ ret' = NoRet
    /\ UNCHANGED <<records, types, heap, stack, order, global_data, printed, symvars, decoded>>

(***************************************************************************)
(* The size engine: Typed::type_size.  A size is a usize or a panic.       *)
(* bor is the set of nodes that are mutably borrowed while the size is     *)
(* computed (the node whose on_complete is running).                       *)
(***************************************************************************)
Size(v) == [ok |-> TRUE, val |-> v, why |-> "none"]
\* a panic! of the size engine itself
SizePanic == [ok |-> FALSE, val |-> 0, why |-> "panic"]
\* RefCell::borrow() on a node that is mutably borrowed
BorrowError == [ok |-> FALSE, val |-> 0, why |-> "BorrowError"]

PrimitiveKinds ==
    {"NoType", "Void", "Char", "UChar", "RChar", "WChar", "RChar16", "RChar32",
     "I8", "U8", "Short", "UShort", "I16", "U16", "Long", "ULong", "I32", "U32",
     "Quad", "UQuad", "I64", "U64", "Octa", "UOcta", "I128", "U128", "F16",
     "F32", "F32PP", "F48", "F64", "F80", "F128", "Complex32", "Complex64",
     "Complex80", "Complex128", "Bool8", "Bool16", "Bool32", "Bool64", "HRESULT"}

Indirections ==
    {"Near16", "Far16", "Huge16", "Near32", "Far32", "Near64", "Near128"}

PointerKinds ==
    {"Near16", "Far16", "Huge16", "BaseSeg", "BaseVal", "BaseSegVal", "BaseAddr",
     "BaseSegAddr", "BaseType", "BaseSelf", "Near32", "Far32", "Ptr64"}

\* PrimitiveKind::type_size whose last arm is `_ => 0`
PrimitiveKindSizeSilent(k) ==
    CASE k \in {"NoType", "Void"} -> Size(0)
      [] k \in {"Char", "UChar", "RChar", "I8", "U8", "Bool8"} -> Size(1)
      [] k \in {"RChar16", "WChar", "Short", "UShort", "I16", "U16", "F16", "Bool16"}
           -> Size(2)
      [] k \in {"RChar32", "Long", "ULong", "I32", "U32", "F32", "F32PP", "Bool32",
                "HRESULT"} -> Size(4)
      [] k \in {"Quad", "UQuad", "I64", "U64", "F64", "Bool64"} -> Size(8)
      [] k \in {"Octa", "UOcta", "I128", "U128"} -> Size(16)
      [] OTHER -> Size(0)

\* impl Typed for PrimitiveKind
PrimitiveKindSize(k) ==
    CASE k \in {"NoType", "Void"} -> Size(0)
      [] k \in {"Char", "UChar", "RChar", "I8", "U8", "Bool8"} -> Size(1)
      [] k \in {"RChar16", "WChar", "Short", "UShort", "I16", "U16", "F16", "Bool16"}
           -> Size(2)
      [] k \in {"RChar32", "Long", "ULong", "I32", "U32", "F32", "F32PP", "Bool32",
                "HRESULT"} -> Size(4)
      [] k \in {"Quad", "UQuad", "I64", "U64", "F64", "Bool64"} -> Size(8)
      [] k \in {"Octa", "UOcta", "I128", "U128"} -> Size(16)
      [] OTHER -> SizePanic

\* impl Typed for Indirection
IndirectionSize(i) ==
    CASE i \in {"Near16", "Far16", "Huge16"} -> Size(2)
      [] i \in {"Near32", "Far32"} -> Size(4)
      [] i = "Near64" -> Size(8)
      [] i = "Near128" -> Size(8)

\* impl Typed for PointerKind
PointerKindSize(k) ==
    CASE k \in {"Near16", "Far16", "Huge16"} -> Size(2)
      [] k \in {"Near32", "Far32"} -> Size(4)
      [] k = "Ptr64" -> Size(8)
      [] OTHER -> SizePanic

\* impl Typed for Primitive
PrimitiveTypeSize(node) ==
    IF node.indirection # "None" THEN IndirectionSize(node.indirection)
    ELSE PrimitiveKindSize(node.prim)

\* the scan `for value in pdb.types.values()` of Class::type_size and
\* Union::type_size: the first node, in the map's iteration order, that can
\* be borrowed (try_borrow), is of the wanted kind, is no forward reference
\* and carries an equal unique_name (0 when the loop ends without a match)
FindImplementation(n, kind, bor) ==
    LET hits == {k \in 1..Len(order) :
                    LET v == types[order[k]]
                    IN /\ v \notin bor
                       /\ heap[v].kind = kind
                       /\ ~heap[v].forward_reference
                       /\ heap[v].unique_name = heap[n].unique_name}
    IN IF hits = {} THEN 0
       ELSE types[order[CHOOSE k \in hits : \A j \in hits : k <= j]]

\* Class::type_size that insists on finding the implementation of a stub
ClassTypeSizeExpects(n, bor) ==
    IF heap[n].forward_reference
    THEN IF FindImplementation(n, "Class", bor) # 0
         THEN Size(heap[FindImplementation(n, "Class", bor)].size)
         ELSE SizePanic
    ELSE Size(heap[n].size)

\* Class::type_size that returns the declared size of a stub
ClassTypeSizeDeclared(n, bor) == Size(heap[n].size)

\* impl Typed for Class
RECURSIVE ClassTypeSize(_, _)
ClassTypeSize(n, bor) ==
    IF heap[n].forward_reference /\ FindImplementation(n, "Class", bor) # 0
    THEN ClassTypeSize(FindImplementation(n, "Class", bor), bor)
    ELSE Size(heap[n].size)

\* impl Typed for Union
RECURSIVE UnionTypeSize(_, _)
UnionTypeSize(n, bor) ==
    IF heap[n].forward_reference /\ FindImplementation(n, "Union", bor) # 0
    THEN UnionTypeSize(FindImplementation(n, "Union", bor), bor)
    ELSE Size(heap[n].size)

\* impl Typed for Array
ArrayTypeSize(node) == Size(node.size)

\* impl Typed for Type
RECURSIVE TypeSize(_, _)
RECURSIVE FoldSizes(_, _, _)
FoldSizes(fields, k, bor) ==
    IF k > Len(fields) THEN Size(0)
    ELSE LET rest == FoldSizes(fields, k + 1, bor)
             here == IF fields[k] \in bor THEN BorrowError ELSE TypeSize(fields[k], bor)
         IN IF ~here.ok THEN here
            ELSE IF ~rest.ok THEN rest
            ELSE Size(here.val + rest.val)

\* the kinds whose arm of Type::type_size is a panic!
UnsizedKinds ==
    {"Member", "ArgumentList", "Procedure", "MemberFunction", "MethodList",
     "MethodListEntry", "VirtualBaseClass", "Nested", "OverloadedMethod",
     "Method", "StaticMember", "VTable", "BaseClass", "EnumVariant"}

\* the arms of the unsized kinds returning 0
UnsizedTypeSizeZero(kind) == Size(0)

\* panic!("type_size() invoked for ..")
UnsizedTypeSize(kind) == SizePanic

\* the Pointer arm taking the size of what the pointer points at
PointerTypeSizeOfPointee(n, bor) ==
    IF heap[n].underlying_type = 0 \/ heap[n].underlying_type \in bor THEN SizePanic
    ELSE TypeSize(heap[n].underlying_type, bor)

\* Type::Pointer(p) => p.attributes.kind.type_size(pdb)
PointerTypeSize(n, bor) == PointerKindSize(heap[n].pointer_kind)

TypeSize(n, bor) ==
    LET node == heap[n]
        through(u) == IF u \in bor THEN BorrowError ELSE TypeSize(u, bor)
    IN CASE node.kind = "Class" -> ClassTypeSize(n, bor)
         [] node.kind = "Union" -> UnionTypeSize(n, bor)
         [] node.kind \in {"Bitfield", "Enumeration", "Modifier"}
              -> through(node.underlying_type)
         [] node.kind = "Pointer" -> PointerTypeSize(n, bor)
         [] node.kind = "Primitive" -> PrimitiveTypeSize(node)
         [] node.kind = "Array" -> ArrayTypeSize(node)
         [] node.kind = "FieldList" -> FoldSizes(node.fields, 1, bor)
         [] node.kind \in UnsizedKinds -> UnsizedTypeSize(node.kind)

(***************************************************************************)
(* The completion pass: Array::on_complete.  The loop divides each byte    *)
(* total by running_size and continues with the quotient; a division by    *)
(* zero panics.                                                            *)
(***************************************************************************)
\* the loop dividing every byte total by the size of the element type
DivideDimensionsByElement(bytes, k, running_size, acc) ==
    IF running_size = 0 /\ k <= Len(bytes)
    THEN [ok |-> FALSE, val |-> acc, why |-> "divide by zero"]
    ELSE [ok |-> TRUE, why |-> "none",
          val |-> acc \o [j \in 1..(Len(bytes) - k + 1) |->
                             bytes[k + j - 1] \div running_size]]

RECURSIVE DivideDimensions(_, _, _, _)
DivideDimensions(bytes, k, running_size, acc) ==
    IF k > Len(bytes) THEN [ok |-> TRUE, val |-> acc, why |-> "none"]
    ELSE IF running_size = 0 THEN [ok |-> FALSE, val |-> acc, why |-> "divide by zero"]
    ELSE DivideDimensions(bytes, k + 1, bytes[k] \div running_size,
                          Append(acc, bytes[k] \div running_size))

\* Array::on_complete without the early return for a zero size
ArrayOnCompleteAlwaysDivides(n) ==
    LET a == heap[n]
        esize == IF a.element_type = n THEN BorrowError ELSE TypeSize(a.element_type, {n})
    IN IF ~esize.ok THEN [ok |-> FALSE, val |-> <<>>, why |-> esize.why]
       ELSE DivideDimensions(a.dimensions_bytes, 1, esize.val, <<>>)

\* Array::on_complete in a pass that keeps the mutable borrow of every node
\* it has visited
ArrayOnCompleteKeepsBorrows(n) ==
    LET a == heap[n]
        bor == {n} \cup {types[order[k]] : k \in {j \in 1..Len(order) : j <= next}}
        esize == IF a.element_type \in bor THEN BorrowError
                 ELSE TypeSize(a.element_type, bor)
    IN IF a.size = 0 THEN [ok |-> TRUE, val |-> <<0>>, why |-> "none"]
       ELSE IF ~esize.ok THEN [ok |-> FALSE, val |-> <<>>, why |-> esize.why]
       ELSE DivideDimensions(a.dimensions_bytes, 1, esize.val, <<>>)

ArrayOnComplete(n) ==
    LET a == heap[n]
        esize == IF a.element_type = n THEN BorrowError ELSE TypeSize(a.element_type, {n})
    IN IF a.size = 0 THEN [ok |-> TRUE, val |-> <<0>>, why |-> "none"]
       ELSE IF ~esize.ok THEN [ok |-> FALSE, val |-> <<>>, why |-> esize.why]
       ELSE DivideDimensions(a.dimensions_bytes, 1, esize.val, <<>>)

\* Type::on_complete: only Array does anything (Class and Union inherit the
\* empty default of the trait)
OnCompleteResult(n) ==
    IF heap[n].kind = "Array" THEN ArrayOnComplete(n)
    ELSE [ok |-> TRUE, val |-> heap[n].dimensions_elements, why |-> "none"]

IterationOrders(S) ==
    {p \in [1..Cardinality(S) -> S] : \A a, b \in 1..Cardinality(S) : p[a] = p[b] => a = b}

\* parse_pdb: the discovered_types loop ends; from here on the map is only
\* read, in the one iteration order its hasher gives it
LoadDone ==
    /\ phase = "load" /\ ret = NoRet /\ stack = <<>>
    /\ next > Len(discovered_types)
    /\ order' \in IterationOrders(DOMAIN types)
    /\ phase' = "complete"
    /\ next' = 1
    /\ UNCHANGED <<records, types, heap, stack, ret, global_data, printed, symvars, decoded>>

\* a completion pass that links a stub to its definition by rebinding the
\* stub's index to the definition's node
OnCompleteLinksStubs ==
    /\ phase = "complete" /\ next <= Len(order)
    /\ LET n == types[order[next]]
           r == OnCompleteResult(n)
           d == IF heap[n].kind \in {"Class", "Union"} /\ heap[n].forward_reference
                THEN FindImplementation(n, heap[n].kind, {n}) ELSE 0
       IN IF r.ok
          THEN /\ heap' = [heap EXCEPT ![n].dimensions_elements = r.val]
               /\ types' = IF d # 0 THEN [types EXCEPT ![order[next]] = d] ELSE types
               /\ next' = next + 1
               /\ UNCHANGED phase
          ELSE /\ phase' = "panicked"
               /\ UNCHANGED <<heap, types, next>>
    /\ UNCHANGED <<records, stack, ret, order, global_data, printed, symvars, decoded>>

\* parse_pdb: typ.as_ref().borrow_mut().on_complete(&output_pdb)
OnComplete ==
    /\ phase = "complete" /\ next <= Len(order)
    /\ LET n == types[order[next]]
           r == OnCompleteResult(n)
       IN IF r.ok
          THEN /\ heap' = [heap EXCEPT ![n].dimensions_elements = r.val]
               /\ next' = next + 1
               /\ UNCHANGED phase
          ELSE /\ phase' = "panicked"
               /\ UNCHANGED <<heap, next>>
    /\ UNCHANGED <<records, types, stack, ret, order, global_data, printed, symvars, decoded>>

\* a completion pass that can be left before every node has been visited
CompleteDoneEarly ==
    /\ phase = "complete"
    /\ phase' = "symbols"
    /\ next' = 1
    /\ UNCHANGED <<records, types, heap, stack, ret, order, global_data, printed, symvars, decoded>>

CompleteDone ==
    /\ phase = "complete" /\ next > Len(order)
    /\ phase' = "symbols"
    /\ next' = 1
    /\ UNCHANGED <<records, types, heap, stack, ret, order, global_data, printed, symvars, decoded>>

(***************************************************************************)
(* Symbols: handle_symbol on each symbol, then main and print_plain.       *)
(***************************************************************************)
\* usize, scaled down to 8 bits
UsizeModulus == 2 ^ 8

\* Option<T>: <<>> is None, <<v>> is Some(v)
None == <<>>
Some(v) == <<v>>

\* the type indices a symbol may carry: those of the PDB and one more
SymbolTypeIndices == DOMAIN records \cup {Cardinality(DOMAIN records) + 1}

\* a symbol record; name is its position in the stream, rva what
\* offset.to_rva(address_map) gives when there is a map
Symbol(kind, type_index, global, rva) ==
    [kind |-> kind, name |-> Len(symbols) + 1, type_index |-> type_index,
     global |-> global, rva |-> rva, id |-> "none"]

\* a BuildInfo symbol; id says what the ID stream holds for symbol.id
IdSymbol(id) == [Symbol("BuildInfo", 0, FALSE, None) EXCEPT !.id = id]

\* address_map.and_then(|m| offset.to_rva(m).map(|rva| u32::from(rva) as usize
\* + base_address)), base_address being base_address.unwrap_or(0); ok is
\* FALSE when the addition overflows usize
SymbolOffset(sym) ==
    LET base == IF base_address = None THEN 0 ELSE base_address[1]
    IN IF address_map /\ sym.rva # None
       THEN [ok |-> sym.rva[1] + base < UsizeModulus,
             val |-> Some((sym.rva[1] + base) % UsizeModulus)]
       ELSE [ok |-> TRUE, val |-> None]

\* type_finder.find(type_index).ok().map(|t| format!("{:?}", t.parse().expect(..)))
Signature(type_index) ==
    IF ~Found(type_index) THEN [ok |-> TRUE, val |-> None]
    ELSE IF ParseError(records[type_index]) # "none" THEN [ok |-> FALSE, val |-> None]
    ELSE [ok |-> TRUE, val |-> Some(records[type_index].kind)]

\* TryFrom<(&pdb::BuildInfoSymbol, Option<&pdb::IdFinder>)> for BuildInfo
BuildInfoFrom(sym) ==
    CASE ~id_finder -> [tag |-> "err", val |-> "MissingDependency"]
      [] sym.id = "Missing" -> [tag |-> "err", val |-> "PdbCrateError"]
      [] sym.id = "BuildInfo" -> [tag |-> "ok", val |-> sym.name]
      [] OTHER -> [tag |-> "panic", val |-> sym.id]

\* the BuildInfo arm storing whatever the conversion gave, None for an Err
BuildInfoArmStoresOption(conv) ==
    [assembly_info EXCEPT !.build_info = IF conv.tag = "ok" THEN Some(conv.val) ELSE None]

\* handle_symbol, BuildInfo arm: try_into()? and then
\* output_pdb.assembly_info.build_info = Some(converted_symbol)
BuildInfoArm(conv) ==
    IF conv.tag = "ok" THEN [assembly_info EXCEPT !.build_info = Some(conv.val)]
    ELSE assembly_info

\* handle_symbol with the From / TryFrom conversion of its arm.  An addition
\* that overflows panics in a build with overflow checks and wraps in one
\* without.
HandleSymbol(sym) ==
    /\ phase = "symbols" /\ Len(symbols) < MaxSymbols
    /\ symbols' = Append(symbols, sym)
    /\ LET offset == SymbolOffset(sym)
           entry == [name |-> sym.name, offset |-> offset.val]
           keep == /\ UNCHANGED <<phase, global_data, public_symbols, procedures,
                                  assembly_info>>
           panic == /\ phase' = "panicked"
                    /\ UNCHANGED <<global_data, public_symbols, procedures,
                                   assembly_info>>
           push == CASE sym.kind = "Public" ->
                          /\ public_symbols' = Append(public_symbols, entry)
                          /\ UNCHANGED <<phase, global_data, procedures, assembly_info>>
                     [] sym.kind = "Procedure" ->
                          IF Signature(sym.type_index).ok
                          THEN /\ procedures' = Append(procedures,
                                     [name |-> sym.name, offset |-> offset.val,
                                      type_index |-> sym.type_index,
                                      signature |-> Signature(sym.type_index).val])
                               /\ UNCHANGED <<phase, global_data, public_symbols,
                                              assembly_info>>
                          ELSE panic
                     [] sym.kind = "Data" ->
                          IF CacheLookup(sym.type_index) # 0 /\ sym.global
                          THEN /\ global_data' = Append(global_data,
                                     [name |-> sym.name, offset |-> offset.val,
                                      ty |-> CacheLookup(sym.type_index)])
                               /\ UNCHANGED <<phase, public_symbols, procedures,
                                              assembly_info>>
                          ELSE keep
                     [] sym.kind = "BuildInfo" ->
                          IF BuildInfoFrom(sym).tag = "panic" THEN panic
                          ELSE /\ assembly_info' = BuildInfoArm(BuildInfoFrom(sym))
                               /\ UNCHANGED <<phase, global_data, public_symbols,
                                              procedures>>
                     [] sym.kind = "CompileFlags" ->
                          /\ assembly_info' =
                                [assembly_info EXCEPT !.compiler_info = Some(sym.name)]
                          /\ UNCHANGED <<phase, global_data, public_symbols, procedures>>
                     [] sym.kind \in {"Undecodable", "Other"} -> keep
       IN IF offset.ok THEN push
          ELSE \/ push
               \/ panic
    /\ UNCHANGED <<records, types, heap, stack, ret, next, order, printed,
                   base_address, address_map, id_finder, decoded>>

\* the Data symbols of the stream: a global one of every type index, and
\* one that is not global
DataSymbols ==
    {Symbol("Data", t, TRUE, None) : t \in SymbolTypeIndices}
    \cup {Symbol("Data", 1, FALSE, None)}

\* the symbol iterator yields a Data symbol
HandleSymbolData ==
    /\ Len(symbols) < MaxData
    /\ \E sym \in DataSymbols : HandleSymbol(sym)

Rvas == {None, Some(1)}

\* public symbols, procedures and Data symbols: of every type index
\* without an RVA, and with an RVA of the first type index and (Data) of an
\* index that has no record
AnySymbols ==
    {Symbol("Public", 0, FALSE, rva) : rva \in Rvas}
    \cup {Symbol("Procedure", t, FALSE, None) : t \in SymbolTypeIndices}
    \cup {Symbol("Data", t, TRUE, None) : t \in SymbolTypeIndices}
    \cup {Symbol(k, 1, k = "Data", Some(1)) : k \in {"Procedure", "Data"}}
    \cup {Symbol("Data", Cardinality(DOMAIN records) + 1, TRUE, Some(1)),
          Symbol("Data", 1, FALSE, None)}

\* what the ID stream holds for the id of a BuildInfo symbol: a BuildInfo
\* record with string arguments, nothing, a record that does not decode
BuildInfoIds == {"BuildInfo", "Missing", "Malformed"}

\* the symbols that are no public symbol, procedure or Data symbol: one
\* whose parse() fails, BuildInfo, CompileFlags and any other kind
OtherSymbols ==
    {Symbol(k, 0, FALSE, None) : k \in {"Undecodable", "CompileFlags", "Other"}}
    \cup {IdSymbol(id) : id \in BuildInfoIds}

\* the symbol iterator yields a symbol of any kind
HandleSymbolAny == \E sym \in AnySymbols \cup OtherSymbols : HandleSymbol(sym)

\* parse_pdb returns Ok(output_pdb) when the symbol streams end
ParseDone ==
    /\ phase = "symbols"
    /\ phase' = "parsed"
    /\ UNCHANGED <<records, types, heap, stack, ret, next, order, global_data, printed, symvars, decoded>>

\* main: assert!(!parsed_pdb.global_data.is_empty())
MainAssertFails ==
    /\ phase = "parsed" /\ global_data = <<>>
    /\ phase' = "assert failed"
    /\ UNCHANGED <<records, types, heap, stack, ret, next, order, global_data, printed, symvars, decoded>>

\* output.rs, format_type_name: the kinds without an arm panic
RECURSIVE FormatTypeName(_)
FormatTypeName(n) ==
    LET node == heap[n]
    IN CASE node.kind \in {"Class", "Union", "Primitive", "Enumeration"} -> TRUE
         [] node.kind = "Array" -> FormatTypeName(node.element_type)
         [] node.kind = "Pointer" ->
              IF node.underlying_type # 0 THEN FormatTypeName(node.underlying_type)
              ELSE TRUE
         [] node.kind \in {"Modifier", "Bitfield"} -> FormatTypeName(node.underlying_type)
         [] node.kind = "Procedure" ->
              /\ node.return_type # 0
              /\ FormatTypeName(node.return_type)
              /\ \A k \in 1..Len(node.arguments) : FormatTypeName(node.arguments[k])
         [] node.kind = "MemberFunction" ->
              /\ FormatTypeName(node.return_type)
              /\ \A k \in 1..Len(node.arguments) : FormatTypeName(node.arguments[k])
         [] OTHER -> FALSE

\* print_plain, region Data: for every global its type name, then
\* ty.type_size(pdb_info)
PrintPlain ==
    /\ phase = "parsed" /\ global_data # <<>>
    /\ LET sizes == [k \in 1..Len(global_data) |->
                        IF FormatTypeName(global_data[k].ty)
                        THEN TypeSize(global_data[k].ty, {}) ELSE SizePanic]
           bad == {k \in 1..Len(global_data) : ~sizes[k].ok}
       IN IF bad = {}
          THEN /\ printed' = [k \in 1..Len(global_data) |-> sizes[k].val]
               /\ phase' = "done"
          ELSE /\ printed' = [k \in 1..((CHOOSE b \in bad : \A c \in bad : b <= c) - 1)
                                 |-> sizes[k].val]
               /\ phase' = "print panicked"
    /\ UNCHANGED <<records, types, heap, stack, ret, next, order, global_data, symvars, decoded>>

(***************************************************************************)
(* The PDBs of the model: type streams, one family per record kind.  A     *)
(* Primitive record stands for a primitive type index, which the type      *)
(* finder resolves but the stream iterator does not visit.                 *)
(***************************************************************************)
\* every primitive kind and indirection, referenced by a modifier
PrimitiveStreams ==
    {<<PrimitiveRec(k, ind), ModifierRec(1)>> :
        k \in PrimitiveKinds \cup {"Unknown"}, ind \in Indirections \cup {"None"}}

DimensionBytes == {0, 4, 40, 120}

RECURSIVE SeqsUpTo(_, _)
SeqsUpTo(S, n) ==
    IF n = 0 THEN {<<>>}
    ELSE LET shorter == SeqsUpTo(S, n - 1)
         IN shorter \cup {Append(q, x) : q \in shorter, x \in S}

\* arrays of a 4-byte, a 1-byte and a 0-byte element
ArrayStreams ==
    {<<PrimitiveRec(k, "None"), ArrayRec(1, 1, dims)>> :
        k \in {"I32", "U8", "Void"}, dims \in SeqsUpTo(DimensionBytes, MaxDims) \ {<<>>}}

Members(list, n) == [k \in 1..n |-> MemberRec(<<list, k>>, 1)]

\* a chain of FieldList records at indices 2, 3, ..: counts[k] inline
\* members in the k-th, each but the last continued by the next
FieldListChain(counts) ==
    <<PrimitiveRec("I32", "None")>>
    \o [k \in 1..Len(counts) |->
           FieldListRec(Members(k + 1, counts[k]),
                        IF k < Len(counts) THEN k + 2 ELSE 0)]

FieldListStreams ==
    {FieldListChain(counts) : counts \in SeqsUpTo(0..MaxInline, MaxChain) \ {<<>>}}

ClassNames == {NoName, "Foo"}
ClassSizes == {0, 24}

\* two classes (stub or definition) and an array of the first
ClassStreams ==
    {<<PrimitiveRec("ULong", "None"),
       ClassRec(0, 0, f1, n1, s1), ClassRec(0, 0, f2, n2, s2),
       ArrayRec(2, 1, <<48>>)>> :
        f1 \in BOOLEAN, f2 \in BOOLEAN, n1 \in ClassNames, n2 \in ClassNames,
        s1 \in ClassSizes, s2 \in ClassSizes}

\* a class or union, its (empty) field list and a second class or union
UnionStreams ==
    {<<FieldListRec(<<>>, 0),
       IF u1 THEN UnionRec(1, 0, f1, n1, s1) ELSE ClassRec(1, 0, f1, n1, s1),
       IF u2 THEN UnionRec(1, 0, f2, n2, s2) ELSE ClassRec(1, 0, f2, n2, s2)>> :
        u1 \in BOOLEAN, u2 \in BOOLEAN, f1 \in BOOLEAN, f2 \in BOOLEAN,
        n1 \in {"Foo"}, n2 \in {"Foo", "Bar"}, s1 \in ClassSizes, s2 \in ClassSizes}

\* a class whose field list holds a member of pointer type; the pointee is
\* the primitive, the pointer itself, the class, or no record at all
GraphStreams ==
    {<<PrimitiveRec("I32", "None"), PointerRec(t, pk),
       FieldListRec(<<MemberRec(<<3, 1>>, 2)>>, 0), ClassRec(3, d, FALSE, "Foo", 8)>> :
        t \in {1, 2, 4, 5}, pk \in {"Ptr64", "Near32", "BaseSeg"}, d \in {0, 4}}

\* a record that cannot be decoded or constructed, and a record referring to it
FaultyStreams ==
    {<<bad, ref>> :
        bad \in {UnimplementedRec, MalformedRec, OtherRec, PrimitiveRec("Unknown", "None"),
                 PrimitiveRec("I32", "None"), FieldListRec(<<MemberRec(<<1, 1>>, 3)>>, 0)},
        ref \in {PointerRec(1, "Ptr64"), ModifierRec(1), ClassRec(1, 0, FALSE, "Foo", 8),
                 ClassRec(0, 1, FALSE, "Foo", 8), FieldListRec(<<>>, 1),
                 FieldListRec(<<MemberRec(<<2, 1>>, 1)>>, 0),
                 UnionRec(1, 0, FALSE, "Foo", 8), UnionRec(1, 1, FALSE, "Foo", 8)}}

\* two pointers of one kind: to a primitive, and to a record of a kind the
\* decoder does not implement
PointerStreams ==
    {<<PrimitiveRec(k, "None"), UnimplementedRec, PointerRec(1, pk), PointerRec(2, pk)>> :
        k \in {"I32", "U8"}, pk \in PointerKinds}

\* a union declaring c members over a field list of m members
UnionFieldStreams ==
    {<<PrimitiveRec("I32", "None"), FieldListRec(Members(2, m), 0),
       UnionRec(2, c, FALSE, "Foo", 8)>> :
        m \in 0..MaxInline, c \in 0..MaxInline}

\* the records without a size: the kinds of the type stream itself, and the
\* kinds found inside a FieldList
SignatureRecords ==
    {ProcedureRec(1, 2), ProcedureRec(0, 2), ProcedureRec(1, 1),
     MemberFunctionRec(1, 1, 0, 2), MemberFunctionRec(1, 1, 1, 2),
     MethodListRec(<<1>>), SingleRec("Bitfield", 1), SingleRec("Enumeration", 1)}

FieldRecords ==
    {MemberRec(<<3, 1>>, 1), VirtualBaseClassRec(1, 1), EnumVariantRec}
    \cup {SingleRec(k, 1) : k \in SingleKinds \ {"Bitfield", "Enumeration"}}

\* a primitive, an argument list, a record without a size (alone or as the
\* one field of a field list) and an array of argument lists or of that record
UnsizedStreams ==
    {<<PrimitiveRec("I32", "None"), ArgumentListRec(<<1>>), x>> \o a :
        x \in SignatureRecords \cup {FieldListRec(<<y>>, 0) : y \in FieldRecords},
        a \in {<<>>, <<ArrayRec(2, 1, <<4>>)>>, <<ArrayRec(3, 1, <<4>>)>>}}

DefinitionSizes == {8, 24}

\* a stub, two definitions that carry its unique_name, and an array of the stub
DuplicateStreams ==
    {<<IF u THEN UnionRec(0, 0, TRUE, "Foo", 0) ELSE ClassRec(0, 0, TRUE, "Foo", 0),
       IF u THEN UnionRec(0, 0, FALSE, "Foo", s1) ELSE ClassRec(0, 0, FALSE, "Foo", s1),
       IF u THEN UnionRec(0, 0, FALSE, "Foo", s2) ELSE ClassRec(0, 0, FALSE, "Foo", s2),
       ArrayRec(1, 1, <<48>>)>> :
        u \in BOOLEAN, s1 \in DefinitionSizes, s2 \in DefinitionSizes}

\* an array whose element type delegates its size: a modifier, another
\* array, an empty field list
ElementStreams ==
    {<<PrimitiveRec("I32", "None"), x, ArrayRec(2, 1, <<40>>)>> :
        x \in {ModifierRec(1), ArrayRec(1, 1, <<8>>), ArrayRec(1, 1, <<0>>),
               FieldListRec(<<>>, 0)}}

TypeStreams ==
    PrimitiveStreams \cup ArrayStreams \cup FieldListStreams \cup ClassStreams
    \cup UnionStreams \cup GraphStreams \cup FaultyStreams \cup PointerStreams
    \cup UnionFieldStreams \cup UnsizedStreams \cup DuplicateStreams
    \cup ElementStreams

\* ParsedPdb::new and the start of parse_pdb
Fresh ==
    /\ types = <<>>
    /\ heap = <<>>
    /\ stack = <<>>
    /\ ret = NoRet
    /\ phase = "load"
    /\ next = 1
    /\ order = <<>>
    /\ global_data = <<>>
    /\ printed = <<>>
    /\ symbols = <<>>
    /\ public_symbols = <<>>
    /\ procedures = <<>>
    /\ assembly_info = [build_info |-> None, compiler_info |-> None]
    /\ decoded = [i \in DOMAIN records |-> 0]

\* any of the type streams, no base address, no address map, no ID stream
Init ==
    /\ records \in TypeStreams
    /\ base_address = None
    /\ address_map = FALSE
    /\ id_finder = FALSE
    /\ Fresh

\* everything but the reading of a symbol
Step ==
    \/ HandleTypeCached
    \/ HandleTypeNotFound
    \/ HandleTypeParseError
    \/ HandleTypeDataUnhandled
    \/ HandleTypeEnter
    \/ StackOverflow
    \/ HandleTypeReturn
    \/ ReceiveResult
    \/ LoadNext
    \/ LoadDone
    \/ OnComplete
    \/ CompleteDone
    \/ ParseDone
    \/ MainAssertFails
    \/ PrintPlain

Next == Step \/ HandleSymbolData

Spec == Init /\ [][Next]_vars

(***************************************************************************)
(* The symbol streams in full, over a few type streams: a record of a kind *)
(* the decoder does not implement (index 2, never cached), a procedure     *)
(* type, an array, and the streams on which resolution dies.               *)
(***************************************************************************)
BaseAddresses == {None, Some(16), Some(UsizeModulus - 1)}

SymbolTypeStreams ==
    {<<PrimitiveRec("I32", "None"), UnimplementedRec>>,
     <<PrimitiveRec("I32", "None"), ArgumentListRec(<<1>>), ProcedureRec(1, 2)>>,
     <<PrimitiveRec("I32", "None"), ArrayRec(1, 1, <<40>>)>>,
     <<PrimitiveRec("I32", "None"), PointerRec(3, "Ptr64")>>,
     <<PrimitiveRec("I32", "None"), PointerRec(2, "Ptr64")>>,
     <<OtherRec, ModifierRec(1)>>,
     <<MalformedRec, ModifierRec(1)>>,
     <<PrimitiveRec("I32", "None"), ArrayRec(2, 1, <<40>>)>>}

SymbolInit ==
    /\ records \in SymbolTypeStreams
    /\ base_address \in BaseAddresses
    /\ address_map \in BOOLEAN
    /\ id_finder \in BOOLEAN
    /\ Fresh

SymbolNext == Step \/ HandleSymbolAny

SymbolSpec == SymbolInit /\ [][SymbolNext]_vars

(***************************************************************************)
(* Helpers of the properties.                                              *)
(***************************************************************************)
Cached == {types[i] : i \in DOMAIN types}

\* the map is complete and its iteration order fixed
Loaded == phase \in {"complete", "symbols", "parsed", "done"}

\* on_complete has run on node n
Completed(n) ==
    \/ phase \in {"symbols", "parsed", "done"} /\ n \in Cached
    \/ /\ phase = "complete"
       /\ \E k \in 1..Len(order) : k < next /\ types[order[k]] = n

\* the sets of nodes that can be mutably borrowed while a size is computed:
\* none, or the array whose on_complete asks for it
Borrows == {{}} \cup {{a} : a \in {c \in Cached : heap[c].kind = "Array"}}

\* the cached definitions a stub stands for
Definitions(n) ==
    {d \in Cached : /\ heap[d].kind = heap[n].kind
                    /\ ~heap[d].forward_reference
                    /\ heap[d].unique_name = heap[n].unique_name}

IsStub(n) == heap[n].kind \in {"Class", "Union"} /\ heap[n].forward_reference

\* on_complete has panicked on the node the completion pass was at
CompletionPanicked == phase = "panicked" /\ order # <<>> /\ symbols = <<>>

Culprit == types[order[next]]

(***************************************************************************)
(* C1  Cache uniqueness: no two nodes are ever built for one type index,   *)
(* the cache maps an index to the node built for it, and a resolve call    *)
(* for a cached index returns that very node and allocates nothing.        *)
(***************************************************************************)
OneNodePerIndex ==
    /\ \A a, b \in DOMAIN heap :
          heap[a].origin # 0 /\ heap[a].origin = heap[b].origin => a = b
    /\ \A i \in DOMAIN types : heap[types[i]].origin = i

SecondResolveShares ==
    (PendingCall.tag = "idx" /\ PendingCall.tgt \in DOMAIN types /\ phase = "load")
        => /\ ret' = OkRet(types[PendingCall.tgt])
           /\ heap' = heap
           /\ types' = types

C1_CacheUniqueness == []OneNodePerIndex /\ [][SecondResolveShares]_vars

\* an array's indexing type is resolved to the node its element type was
\* resolved to a moment before
C1_Witness ==
    /\ stack # <<>> /\ ret.tag = "ok"
    /\ Top.rec.kind = "Array"
    /\ Top.got = <<ret.node>>
    /\ Top.rec.element_type = Top.rec.indexing_type

(***************************************************************************)
(* C2  Cycle safety: when a class's field list holds a member whose type   *)
(* is a pointer to the class, the resolution does not exhaust the stack,   *)
(* and once the types are loaded the pointer's pointee is the class's      *)
(* cached node.                                                            *)
(***************************************************************************)
PointersBackTo(a) ==
    IF records[a].kind = "Class" /\ records[a].fields \in DOMAIN records
    THEN {m.underlying_type : m \in {records[records[a].fields].inl[k] :
                                       k \in 1..Len(records[records[a].fields].inl)}}
    ELSE {}

SelfReferring ==
    {a \in DOMAIN records :
        \E p \in PointersBackTo(a) :
            /\ p \in DOMAIN records
            /\ records[p].kind = "Pointer"
            /\ records[p].underlying_type = a}

C2_CycleSafety ==
    \A a \in SelfReferring :
        /\ phase # "overflow"
        /\ Loaded => /\ a \in DOMAIN types
                     /\ \A p \in PointersBackTo(a) :
                           (p \in DOMAIN types /\ records[p].underlying_type = a)
                               => heap[types[p]].underlying_type = types[a]

(***************************************************************************)
(* C3  Pre-insertion: whenever a constructor has begun to resolve the      *)
(* dependent types of the record of an index, that index is already a key  *)
(* of the cache.                                                           *)
(***************************************************************************)
ResolvingDependents(k) ==
    \/ k < Len(stack)
    \/ Len(stack[k].got) > 0
    \/ k = Len(stack) /\ ret # NoRet

C3_PreInsertion ==
    \A k \in DOMAIN stack :
        (stack[k].idx # 0 /\ ResolvingDependents(k)) => stack[k].idx \in DOMAIN types

(***************************************************************************)
(* C4  Forward-reference size: the size of a Class or Union stub that has  *)
(* a unique_name and whose definition is cached is the declared size of a  *)
(* cached definition of its kind with that unique_name; the size of a      *)
(* Class or Union that is no stub is its own declared size.                *)
(***************************************************************************)
C4_ForwardReferenceSize ==
    Loaded =>
        \A n \in Cached, bor \in Borrows :
            heap[n].kind \in {"Class", "Union"} =>
                /\ (IsStub(n) /\ heap[n].unique_name # NoName /\ Definitions(n) # {})
                      => /\ TypeSize(n, bor).ok
                         /\ TypeSize(n, bor).val \in {heap[d].size : d \in Definitions(n)}
                /\ ~IsStub(n) => TypeSize(n, bor) = Size(heap[n].size)

\* print_plain has written 24 for a global whose type is a stub "Foo" of
\* declared size 0
C4_Witness ==
    /\ phase = "done"
    /\ \E k \in 1..Len(global_data) :
          /\ IsStub(global_data[k].ty)
          /\ heap[global_data[k].ty].unique_name = "Foo"
          /\ heap[global_data[k].ty].size = 0
          /\ {heap[d].size : d \in Definitions(global_data[k].ty)} = {24}
          /\ printed[k] = 24

(***************************************************************************)
(* C5  Unmatched stub: the size of a Class or Union stub for which the     *)
(* cache holds no definition of its kind with an equal unique_name is the  *)
(* stub's own size field, and computing it never panics, also while an     *)
(* array is mutably borrowed by the completion pass.                       *)
(***************************************************************************)
C5_UnmatchedStub ==
    Loaded =>
        \A n \in Cached, bor \in Borrows :
            (IsStub(n) /\ Definitions(n) = {})
                => TypeSize(n, bor) = Size(heap[n].size)

\* the completion pass has divided an array's 48 bytes by the 24 of its
\* element type, a stub without a definition
C5_Witness ==
    \E a \in Cached :
        /\ heap[a].kind = "Array" /\ Completed(a)
        /\ IsStub(heap[a].element_type)
        /\ Definitions(heap[a].element_type) = {}
        /\ heap[heap[a].element_type].size = 24
        /\ heap[a].dimensions_bytes = <<48>>
        /\ heap[a].dimensions_elements = <<2>>

(***************************************************************************)
(* C6  Array dimension inference: a completed array with a 4-byte element  *)
(* and dimensions_bytes [40, 120] has dimensions_elements [10, 3].         *)
(***************************************************************************)
ElementSize(a) == TypeSize(heap[a].element_type, {})

C6_ArrayDimensionInference ==
    \A a \in Cached :
        (/\ heap[a].kind = "Array" /\ Completed(a)
         /\ ElementSize(a) = Size(4)
         /\ heap[a].dimensions_bytes = <<40, 120>>)
            => heap[a].dimensions_elements = <<10, 3>>

(***************************************************************************)
(* C7  Array dimension invariant: in a completed array whose size and      *)
(* element size are not zero, dimensions_bytes[1] is dimensions_elements[1] times the    *)
(* element size and every later dimensions_bytes[i] is                     *)
(* dimensions_elements[i] times dimensions_bytes[i-1], wherever the        *)
(* division is exact.                                                      *)
(***************************************************************************)
Divides(d, b) == d # 0 /\ b % d = 0

C7_ArrayDimensionInvariant ==
    \A a \in Cached :
        (/\ heap[a].kind = "Array" /\ Completed(a) /\ heap[a].size # 0
         /\ ElementSize(a).ok /\ ElementSize(a).val # 0)
            => LET b == heap[a].dimensions_bytes
                   e == heap[a].dimensions_elements
               IN /\ Len(e) = Len(b)
                  /\ Divides(ElementSize(a).val, b[1])
                        => b[1] = e[1] * ElementSize(a).val
                  /\ \A i \in 2..Len(b) :
                        (Divides(ElementSize(a).val, b[1])
                         /\ \A j \in 2..i : Divides(b[j - 1], b[j]))
                            => b[i] = e[i] * b[i - 1]

(***************************************************************************)
(* C8  Zero-size array: a completed array whose size (its last byte total) *)
(* is 0 has dimensions_elements [0].                                       *)
(***************************************************************************)
C8_ZeroSizeArray ==
    \A a \in Cached :
        (heap[a].kind = "Array" /\ Completed(a) /\ heap[a].size = 0)
            => heap[a].dimensions_elements = <<0>>

\* a completed array of 4-byte elements with byte totals [40, 0]
C8_Witness ==
    \E a \in Cached :
        /\ heap[a].kind = "Array" /\ Completed(a)
        /\ ElementSize(a) = Size(4)
        /\ heap[a].dimensions_bytes = <<40, 0>>
        /\ heap[a].dimensions_elements = <<0>>

(***************************************************************************)
(* C9  FieldList continuation: the fields of the node of a FieldList       *)
(* record are the members of its inline records, in order, followed by     *)
(* those of the record its continuation names, and so on along the chain.  *)
(***************************************************************************)
FieldNames(rec) == [k \in 1..Len(rec.inl) |-> rec.inl[k].name]

RECURSIVE ChainNames(_)
ChainNames(i) ==
    FieldNames(records[i])
    \o (IF records[i].continuation # 0 THEN ChainNames(records[i].continuation)
        ELSE <<>>)

NodeFieldNames(n) == [k \in 1..Len(heap[n].fields) |-> heap[heap[n].fields[k]].name]

RECURSIVE ChainKinds(_)
ChainKinds(i) ==
    [k \in 1..Len(records[i].inl) |-> records[i].inl[k].kind]
    \o (IF records[i].continuation # 0 THEN ChainKinds(records[i].continuation)
        ELSE <<>>)

NodeFieldKinds(n) == [k \in 1..Len(heap[n].fields) |-> heap[heap[n].fields[k]].kind]

C9_FieldListContinuation ==
    \A i \in DOMAIN types :
        records[i].kind = "FieldList"
            => /\ NodeFieldNames(types[i]) = ChainNames(i)
               /\ NodeFieldKinds(types[i]) = ChainKinds(i)

\* 2 inline fields, then the 3 of the continuation, which has none itself
C9_Witness ==
    /\ 2 \in DOMAIN types /\ 3 \in DOMAIN records
    /\ records[2].kind = "FieldList" /\ Len(records[2].inl) = 2
    /\ records[2].continuation = 3
    /\ Len(records[3].inl) = 3 /\ records[3].continuation = 0
    /\ NodeFieldNames(types[2]) = <<<<2, 1>>, <<2, 2>>, <<3, 1>>, <<3, 2>>, <<3, 3>>>>

(***************************************************************************)
(* C10  Primitive size table.  The documented sizes, by kind:              *)
(***************************************************************************)
DocumentedSize ==
    [NoType |-> 0, Void |-> 0,
     Char |-> 1, UChar |-> 1, RChar |-> 1, I8 |-> 1, U8 |-> 1, Bool8 |-> 1,
     WChar |-> 2, RChar16 |-> 2, Short |-> 2, UShort |-> 2, I16 |-> 2, U16 |-> 2,
     F16 |-> 2, Bool16 |-> 2,
     RChar32 |-> 4, Long |-> 4, ULong |-> 4, I32 |-> 4, U32 |-> 4, F32 |-> 4,
     F32PP |-> 4, Bool32 |-> 4, HRESULT |-> 4,
     Quad |-> 8, UQuad |-> 8, I64 |-> 8, U64 |-> 8, F64 |-> 8, Bool64 |-> 8,
     Octa |-> 16, UOcta |-> 16, I128 |-> 16, U128 |-> 16]

DocumentedIndirectionSize ==
    [Near16 |-> 2, Far16 |-> 2, Huge16 |-> 2, Near32 |-> 4, Far32 |-> 4,
     Near64 |-> 8, Near128 |-> 8]

Primitives == {n \in DOMAIN heap : heap[n].kind = "Primitive"}

\* print_plain panicked on the global after the last one it wrote a size for
PrintPanicked == phase = "print panicked"

\* C10 as claimed: the size print_plain writes for a global of Primitive type
\* is the documented byte count of its kind, and print_plain fails on a global
\* of Primitive type exactly when its kind is outside the table
C10_PrimitiveSizeTable ==
    /\ \A k \in 1..Len(printed) :
          global_data[k].ty \in Primitives
              => /\ heap[global_data[k].ty].prim \in DOMAIN DocumentedSize
                 /\ printed[k] = DocumentedSize[heap[global_data[k].ty].prim]
    /\ (PrintPanicked /\ global_data[Len(printed) + 1].ty \in Primitives)
          => heap[global_data[Len(printed) + 1].ty].prim \notin DOMAIN DocumentedSize

\* the size of a Primitive node by the amended rule 
AmendedSize(n) ==
    IF heap[n].indirection # "None"
    THEN Size(DocumentedIndirectionSize[heap[n].indirection])
    ELSE IF heap[n].prim \in DOMAIN DocumentedSize
         THEN Size(DocumentedSize[heap[n].prim])
         ELSE SizePanic

\* C10 as amended: the size of a Primitive node without indirection is the
\* documented byte count of its kind, and computing it fails for a kind
\* outside the table; the size of a Primitive node with an indirection is the
\* size of the indirection (2 for Near16, Far16, Huge16; 4 for Near32, Far32;
\* 8 for Near64 and Near128), whatever the kind
C10_PrimitiveSizeAmended ==
    /\ \A n \in Primitives : TypeSize(n, {}) = AmendedSize(n)
    /\ \A k \in 1..Len(printed) :
          global_data[k].ty \in Primitives
              => AmendedSize(global_data[k].ty) = Size(printed[k])
    /\ (PrintPanicked /\ global_data[Len(printed) + 1].ty \in Primitives)
          => ~AmendedSize(global_data[Len(printed) + 1].ty).ok

\* print_plain has written 4 for a global whose type is F80 behind a Near32
\* indirection
C10_Witness ==
    /\ phase = "done"
    /\ \E k \in 1..Len(global_data) :
          /\ heap[global_data[k].ty].kind = "Primitive"
          /\ heap[global_data[k].ty].prim = "F80"
          /\ heap[global_data[k].ty].indirection = "Near32"
          /\ printed[k] = 4

(***************************************************************************)
(* C11  Pointer size independence: the size of a Pointer node is 2 for     *)
(* Near16, Far16 and Huge16, 4 for Near32 and Far32 and 8 for Ptr64, with  *)
(* the pointee resolved or absent; two pointers of one kind have one size, *)
(* whatever they point at; print_plain writes that size.                   *)
(***************************************************************************)
DocumentedPointerSize ==
    [Near16 |-> 2, Far16 |-> 2, Huge16 |-> 2, Near32 |-> 4, Far32 |-> 4, Ptr64 |-> 8]

Pointers == {n \in DOMAIN heap : heap[n].kind = "Pointer"}

C11_PointerSizeIndependence ==
    /\ \A n \in Pointers, bor \in Borrows :
          heap[n].pointer_kind \in DOMAIN DocumentedPointerSize
              => TypeSize(n, bor) = Size(DocumentedPointerSize[heap[n].pointer_kind])
    /\ \A n, m \in Pointers :
          heap[n].pointer_kind = heap[m].pointer_kind => TypeSize(n, {}) = TypeSize(m, {})
    /\ \A k \in 1..Len(printed) :
          (global_data[k].ty \in Pointers
           /\ heap[global_data[k].ty].pointer_kind \in DOMAIN DocumentedPointerSize)
              => printed[k] = DocumentedPointerSize[heap[global_data[k].ty].pointer_kind]

\* print_plain has written 8 for a global that is a Ptr64 pointer without a
\* pointee, next to a Ptr64 pointer to a 1-byte primitive
C11_Witness ==
    /\ phase = "done"
    /\ \E k \in 1..Len(global_data) :
          /\ global_data[k].ty \in Pointers
          /\ heap[global_data[k].ty].pointer_kind = "Ptr64"
          /\ heap[global_data[k].ty].underlying_type = 0
          /\ printed[k] = 8
    /\ \E m \in Pointers :
          /\ heap[m].pointer_kind = "Ptr64"
          /\ heap[m].underlying_type # 0
          /\ TypeSize(heap[m].underlying_type, {}) = Size(1)

(***************************************************************************)
(* C12  Best-effort pointee: when the pointee of a Pointer record cannot   *)
(* be resolved (no record for its index, or its resolution returns an      *)
(* error) the parse goes on, and once the types are loaded the Pointer is  *)
(* cached with no pointee.                                                 *)
(***************************************************************************)
\* the finder has no record for the index, or the record does not decode
Unresolvable(i) == ~Found(i) \/ ParseError(records[i]) # "none"

\* the Pointer constructor is at its resolve call and that call cannot succeed
PointeeUnresolved ==
    /\ Running /\ stack # <<>>
    /\ Top.rec.kind = "Pointer" /\ Top.got = <<>>
    /\ \/ ret.tag = "err"
       \/ ret = NoRet /\ Unresolvable(Top.rec.underlying_type)

C12_BestEffortPointee ==
    /\ [][PointeeUnresolved => phase' = "load"]_vars
    /\ [](Loaded =>
            \A i \in DOMAIN records :
                (records[i].kind = "Pointer" /\ Unresolvable(records[i].underlying_type))
                    => /\ i \in DOMAIN types
                       /\ heap[types[i]].underlying_type = 0)

(***************************************************************************)
(* C13  Type errors are fatal.  As claimed: whenever the resolution of a   *)
(* discovered type index returns an error, parse_pdb returns it; nothing   *)
(* happens after that.                                                     *)
(***************************************************************************)
\* handle_type has returned an Err to the discovered_types loop
LoadFailed == phase = "load" /\ stack = <<>> /\ ret.tag = "err"

\* parse_pdb has returned an Err, or the process has died
Aborted ==
    phase \in {"failed", "panicked", "overflow", "assert failed", "print panicked"}

SkippedErrors == {"UnimplementedTypeKind", "TypeNotFound"}

Faulty(sym) == sym.kind \in {"Procedure", "Data"} /\ sym.type_index \notin DOMAIN types

\* a record whose offset is computed without overflow
InRange(sym) == SymbolOffset(sym).ok

IsPublic(sym) == sym.kind = "Public" /\ ~Faulty(sym)
IsProcedure(sym) == sym.kind = "Procedure" /\ ~Faulty(sym)
IsGlobalData(sym) == sym.kind = "Data" /\ sym.global /\ ~Faulty(sym)

Names(list) == [k \in 1..Len(list) |-> list[k].name]

C14_SymbolFaultIsolation ==
    (/\ Cardinality({k \in 1..Len(symbols) : Faulty(symbols[k])}) = 1
     /\ \A k \in 1..Len(symbols) : InRange(symbols[k]))
        => /\ phase # "panicked"
           /\ phase = "parsed"
                 => /\ Names(public_symbols) = Names(SelectSeq(symbols, IsPublic))
                    /\ Names(procedures) = Names(SelectSeq(symbols, IsProcedure))
                    /\ Names(global_data) = Names(SelectSeq(symbols, IsGlobalData))

(***************************************************************************)
(* C15  Unknown index is an error value: handle_type of an index that is   *)
(* not cached and has no record returns Err(UnresolvedType) to its caller, *)
(* which goes on.                                                          *)
(***************************************************************************)
UnknownIndex ==
    /\ Running /\ PendingCall.tag = "idx"
    /\ CacheLookup(PendingCall.tgt) = 0
    /\ ~Found(PendingCall.tgt)

C15_UnknownIndexIsError ==
    [][UnknownIndex => /\ ret' = ErrRet("UnresolvedType")
                       /\ phase' = phase /\ stack' = stack]_vars

(***************************************************************************)
(* C16  Unsized kinds never yield a size: the size of a node of kind       *)
(* Member, ArgumentList, Procedure, MemberFunction, MethodList,            *)
(* MethodListEntry, VirtualBaseClass, Nested, OverloadedMethod, Method,    *)
(* StaticMember, VTable, BaseClass or EnumVariant is a panic: print_plain  *)
(* never writes a size for a global of such a type and the completion pass *)
(* never divides an array's bytes by the size of such an element.          *)
(***************************************************************************)
Unsized == {n \in DOMAIN heap : heap[n].kind \in UnsizedKinds}

C16_UnsizedKinds ==
    /\ \A n \in Unsized, bor \in Borrows : ~TypeSize(n, bor).ok
    /\ \A k \in 1..Len(printed) : global_data[k].ty \notin Unsized
    /\ \A a \in Cached :
          (heap[a].kind = "Array" /\ Completed(a) /\ heap[a].size # 0)
              => heap[a].element_type \notin Unsized

\* print_plain has written the name of a global of Procedure type and has
\* panicked on its size
C16_Witness ==
    /\ PrintPanicked
    /\ heap[global_data[Len(printed) + 1].ty].kind = "Procedure"
    /\ FormatTypeName(global_data[Len(printed) + 1].ty)

(***************************************************************************)
(* C17  Phase ordering: the completion pass starts only when the           *)
(* discovered_types loop has tried every index, on_complete changes a node *)
(* only during that pass, and a symbol is read or a global printed only    *)
(* when on_complete has run on every cached node.                          *)
(***************************************************************************)
\* on_complete has left its mark on every cached array
AllCompleted ==
    \A a \in Cached :
        heap[a].kind = "Array"
            => Len(heap[a].dimensions_elements)
                 = IF heap[a].size = 0 THEN 1 ELSE Len(heap[a].dimensions_bytes)

NodeCompleted ==
    \E n \in DOMAIN heap : heap'[n].dimensions_elements # heap[n].dimensions_elements

PhaseOrder ==
    /\ (phase = "load" /\ phase' = "complete")
          => next > Len(discovered_types) /\ stack = <<>> /\ ret = NoRet
    /\ NodeCompleted => phase = "complete" /\ phase' = "complete"
    /\ (phase = "complete" /\ phase' = "symbols")
          => \A i \in DOMAIN types : Completed(types[i])
    /\ symbols' # symbols => phase = "symbols" /\ AllCompleted
    /\ printed' # printed => phase = "parsed" /\ AllCompleted

C17_PhaseOrdering ==
    /\ [][PhaseOrder]_vars
    /\ [](phase \in {"symbols", "parsed", "done", "print panicked"} => AllCompleted)

\* a symbol has been read and the cached array has its element count
C17_Witness ==
    /\ symbols # <<>>
    /\ \E a \in Cached :
          /\ heap[a].kind = "Array"
          /\ heap[a].dimensions_bytes = <<40>>
          /\ heap[a].dimensions_elements = <<10>>

(***************************************************************************)
(* C18  Cache monotonicity: an entry of the cache is never removed and     *)
(* never bound to another node, and no node changes its kind, its index,   *)
(* or from stub to definition; a stub and a definition are two nodes.      *)
(***************************************************************************)
EntriesKept ==
    /\ \A i \in DOMAIN types : i \in DOMAIN types' /\ types'[i] = types[i]
    /\ \A n \in DOMAIN heap :
          /\ n \in DOMAIN heap'
          /\ heap'[n].kind = heap[n].kind
          /\ heap'[n].origin = heap[n].origin
          /\ heap'[n].forward_reference = heap[n].forward_reference
          /\ heap'[n].unique_name = heap[n].unique_name
          /\ heap'[n].size = heap[n].size

StubsApart ==
    \A i, j \in DOMAIN types :
        (IsStub(types[i]) /\ ~IsStub(types[j])) => types[i] # types[j] /\ i # j

C18_CacheMonotonicity == [][EntriesKept]_vars /\ []StubsApart

\* the symbols are being read and the cache still binds a stub and its
\* definition to their own nodes
C18_Witness ==
    /\ phase = "symbols" /\ global_data # <<>>
    /\ \E i, j \in DOMAIN types :
          /\ IsStub(types[i]) /\ types[j] \in Definitions(types[i])
          /\ heap[types[i]].origin = i /\ heap[types[j]].origin = j

(***************************************************************************)
(* C19  Base address: the offset of every public symbol, procedure and     *)
(* global is the RVA of its record plus the base address (plus 0 without   *)
(* one), not wrapped around, and is absent when there is no address map or *)
(* the record has no RVA; computing it does not end the process.           *)
(***************************************************************************)
Base == IF base_address = None THEN 0 ELSE base_address[1]

ExpectedOffset(sym) ==
    IF address_map /\ sym.rva # None THEN Some(sym.rva[1] + Base) ELSE None

OffsetsOf(list) ==
    \A k \in 1..Len(list) : list[k].offset = ExpectedOffset(symbols[list[k].name])

C19_BaseAddress ==
    /\ OffsetsOf(public_symbols) /\ OffsetsOf(procedures) /\ OffsetsOf(global_data)
    /\ (phase = "panicked" /\ symbols # <<>>) => InRange(Last(symbols))

(***************************************************************************)
(* C20  Zero-count union: the node of a Union record that declares no      *)
(* member has no fields, whatever the FieldList it names holds; the node   *)
(* of a Union record that declares members has the fields of the node of   *)
(* that FieldList, in order.                                               *)
(***************************************************************************)
C20_ZeroCountUnion ==
    \A i \in DOMAIN types :
        (records[i].kind = "Union" /\ records[i].fields \in DOMAIN types
         /\ records[records[i].fields].kind = "FieldList")
            => IF records[i].count = 0
               THEN heap[types[i]].fields = <<>>
               ELSE /\ heap[types[i]].fields = heap[types[records[i].fields]].fields
                    /\ NodeFieldNames(types[i]) = ChainNames(records[i].fields)

\* a union declaring no member over a field list of two, and its node
C20_Witness ==
    \E i \in DOMAIN types :
        /\ records[i].kind = "Union" /\ records[i].count = 0
        /\ records[i].fields \in DOMAIN types
        /\ Len(heap[types[records[i].fields]].fields) = 2
        /\ heap[types[i]].fields = <<>>

(***************************************************************************)
(* C21  Chained-division rule: a completed array of nonzero size has one   *)
(* element count per byte total; the first is the first byte total divided *)
(* by the size of the element type, every later one is its byte total      *)
(* divided by the element count before it (integer division).              *)
(***************************************************************************)
RECURSIVE ChainedDivision(_, _)
ChainedDivision(bytes, running_size) ==
    IF bytes = <<>> \/ running_size = 0 THEN <<>>
    ELSE <<Head(bytes) \div running_size>>
         \o ChainedDivision(Tail(bytes), Head(bytes) \div running_size)

C21_ChainedDivision ==
    \A a \in Cached :
        (heap[a].kind = "Array" /\ Completed(a) /\ heap[a].size # 0)
            => /\ ElementSize(a).ok
               /\ Len(heap[a].dimensions_elements) = Len(heap[a].dimensions_bytes)
               /\ heap[a].dimensions_elements
                     = ChainedDivision(heap[a].dimensions_bytes, ElementSize(a).val)

\* 40 bytes of 4-byte elements are 10 elements, 120 bytes of 10 are 12
C21_Witness ==
    \E a \in Cached :
        /\ heap[a].kind = "Array" /\ Completed(a)
        /\ ElementSize(a) = Size(4)
        /\ heap[a].dimensions_bytes = <<40, 120>>
        /\ heap[a].dimensions_elements = <<10, 12>>

(***************************************************************************)
(* C22  Completion order independence: once the completion pass is over,   *)
(* every array of nonzero size holds the element counts it would hold had  *)
(* the pass gone through the map in any other order; an array of arrays    *)
(* holds the same counts whether its element was completed before or after *)
(* it.                                                                     *)
(***************************************************************************)
\* the definition of stub n that comes first when the map is iterated as ord
FirstDefinition(ord, n) ==
    LET hits == {k \in 1..Len(ord) : types[ord[k]] \in Definitions(n)}
    IN types[ord[CHOOSE k \in hits : \A j \in hits : k <= j]]

\* the size of node n when the map is iterated as ord
SizeUnder(ord, n) ==
    IF IsStub(n) /\ Definitions(n) # {}
    THEN Size(heap[FirstDefinition(ord, n)].size)
    ELSE TypeSize(n, {})

Completable(a) ==
    /\ heap[a].kind = "Array" /\ heap[a].size # 0
    /\ ElementSize(a).ok /\ ElementSize(a).val # 0

C22_CompletionOrderIndependence ==
    phase \in {"symbols", "parsed", "done"} =>
        \A a \in Cached :
            Completable(a) =>
                \A ord \in IterationOrders(DOMAIN types) :
                    heap[a].dimensions_elements
                        = ChainedDivision(heap[a].dimensions_bytes,
                                          SizeUnder(ord, heap[a].element_type).val)

(***************************************************************************)
(* C23  FieldList size: the size of a FieldList node is computed without a *)
(* panic, whatever the kinds of its entries, and for a list of Member      *)
(* entries it is the sum of the sizes of the members' types; the           *)
(* completion of an array of a FieldList does not panic on that size.      *)
(***************************************************************************)
RECURSIVE MemberSum(_, _)
MemberSum(fields, k) ==
    IF k > Len(fields) THEN 0
    ELSE TypeSize(heap[fields[k]].underlying_type, {}).val + MemberSum(fields, k + 1)

AllMembers(n) == \A k \in 1..Len(heap[n].fields) : heap[heap[n].fields[k]].kind = "Member"

C23_FieldListSize ==
    /\ Loaded =>
          \A n \in Cached :
              heap[n].kind = "FieldList"
                  => /\ TypeSize(n, {}).ok
                     /\ AllMembers(n) => TypeSize(n, {}).val = MemberSum(heap[n].fields, 1)
    /\ (CompletionPanicked /\ heap[Culprit].kind = "Array"
         /\ heap[heap[Culprit].element_type].kind = "FieldList")
          => heap[heap[Culprit].element_type].fields = <<>>

(***************************************************************************)
(* C24  Memoization: in one parse handle_type decodes the record of a type *)
(* index at most once and at most one node is built for it, also for an    *)
(* index whose resolution failed and for the pointee of a Pointer.         *)
(***************************************************************************)
C24_Memoization ==
    \A i \in DOMAIN records :
        /\ decoded[i] <= 1
        /\ Cardinality({n \in DOMAIN heap : heap[n].origin = i}) <= 1

(***************************************************************************)
(* C25  Borrow discipline: in the completion pass no on_complete fails on  *)
(* a borrow: the size computation an array starts never reads a node that  *)
(* is mutably borrowed, and the array is not among the nodes its element   *)
(* type delegates its size to (through Modifier, Bitfield, Enumeration or   *)
(* FieldList).                                                             *)
(***************************************************************************)
RECURSIVE Delegates(_)
RECURSIVE DelegatesOfAll(_, _)
DelegatesOfAll(fields, k) ==
    IF k > Len(fields) THEN {}
    ELSE Delegates(fields[k]) \cup DelegatesOfAll(fields, k + 1)

\* the nodes whose size the size of node n is computed from
Delegates(n) ==
    {n} \cup
    (CASE heap[n].kind \in {"Modifier", "Bitfield", "Enumeration"}
            -> Delegates(heap[n].underlying_type)
       [] heap[n].kind = "FieldList" -> DelegatesOfAll(heap[n].fields, 1)
       [] OTHER -> {})

C25_BorrowDiscipline ==
    /\ phase = "complete" =>
          \A a \in Cached :
              heap[a].kind = "Array"
                  => /\ OnCompleteResult(a).why # "BorrowError"
                     /\ a \notin Delegates(heap[a].element_type)
    /\ CompletionPanicked => OnCompleteResult(Culprit).why # "BorrowError"

\* the pass has completed an array whose element type is a modifier of a
\* 4-byte primitive
C25_Witness ==
    \E a \in Cached :
        /\ heap[a].kind = "Array" /\ Completed(a)
        /\ heap[heap[a].element_type].kind = "Modifier"
        /\ heap[a].dimensions_elements = <<10>>

(***************************************************************************)
(* C26  No division by zero in the completion pass: on_complete of an      *)
(* array of nonzero size whose element type has a size finishes normally   *)
(* with one element count per byte total, also when that size is 0 and     *)
(* when an element count before the last is 0.                             *)
(***************************************************************************)
C26_NoDivisionByZero ==
    /\ phase = "complete" =>
          \A a \in Cached :
              (heap[a].kind = "Array" /\ heap[a].size # 0 /\ ElementSize(a).ok)
                  => /\ OnCompleteResult(a).ok
                     /\ Len(OnCompleteResult(a).val) = Len(heap[a].dimensions_bytes)
    /\ CompletionPanicked => OnCompleteResult(Culprit).why # "divide by zero"

(***************************************************************************)
(* C27  Failed symbol leaves the model unchanged: when handle_symbol       *)
(* returns an error (the symbol does not decode, a Data symbol's type      *)
(* index is not cached, a BuildInfo symbol finds no ID stream or no record *)
(* for its id), public_symbols, procedures, global_data, assembly_info and *)
(* the type cache are as before the symbol and the loop goes on.           *)
(***************************************************************************)
\* the symbols for which handle_symbol returns an Err
SymbolFails(sym) ==
    \/ sym.kind = "Undecodable"
    \/ sym.kind = "Data" /\ sym.type_index \notin DOMAIN types
    \/ sym.kind = "BuildInfo" /\ (~id_finder \/ sym.id = "Missing")

\* handle_symbol has returned from the symbol just read
SymbolReturned == symbols' # symbols /\ phase' # "panicked"

C27_FailedSymbolFrame ==
    [][(SymbolReturned /\ SymbolFails(Last(symbols')))
          => /\ UNCHANGED <<public_symbols, procedures, global_data, assembly_info>>
             /\ UNCHANGED <<types, heap>>
             /\ phase' = "symbols"]_vars

\* a BuildInfo symbol was converted, and the next one, whose id has no
\* record, was passed over
C27_Witness ==
    /\ phase = "symbols" /\ Len(symbols) = 2
    /\ symbols[1].kind = "BuildInfo" /\ symbols[1].id = "BuildInfo"
    /\ symbols[2].kind = "BuildInfo" /\ symbols[2].id = "Missing"
    /\ assembly_info.build_info = Some(1)

(***************************************************************************)
(* C28  Skipped symbols never crash the tool: once parse_pdb has returned  *)
(* its model, main goes on to the formatting step, whatever symbols were   *)
(* passed over and also when global_data is empty.                         *)
(***************************************************************************)
C28_SkippedSymbolsNeverCrash ==
    [][phase = "parsed" => phase' \in {"done", "print panicked"}]_vars

(***************************************************************************)
(* C29  Forward-reference resolution is deterministic: the size of a Class *)
(* or Union stub is the same in whatever order the map is iterated, also   *)
(* when several definitions carry the stub's unique_name with different    *)
(* sizes; print_plain writes that size for a global of the stub's type.    *)
(***************************************************************************)
C29_ForwardReferenceDeterminism ==
    Loaded =>
        \A ord \in IterationOrders(DOMAIN types) :
            /\ \A n \in Cached : IsStub(n) => TypeSize(n, {}) = SizeUnder(ord, n)
            /\ \A k \in 1..Len(printed) :
                  IsStub(global_data[k].ty)
                      => Size(printed[k]) = SizeUnder(ord, global_data[k].ty)

(***************************************************************************)
(* C30  A stub is matched only by name identity: the size of a Class or    *)
(* Union stub is its own declared size unless the cache holds a definition *)
(* of its kind whose unique_name is present and equal to the stub's, and   *)
(* then it is the size of such a definition; a stub without a unique_name  *)
(* reports its own size.                                                   *)
(***************************************************************************)
\* the definitions that carry the name of stub n
NamedDefinitions(n) == IF heap[n].unique_name = NoName THEN {} ELSE Definitions(n)

C30_MatchByNameOnly ==
    Loaded =>
        \A n \in Cached, bor \in Borrows :
            IsStub(n)
                => /\ TypeSize(n, bor).ok
                   /\ TypeSize(n, bor).val
                         \in IF NamedDefinitions(n) = {} THEN {heap[n].size}
                             ELSE {heap[d].size : d \in NamedDefinitions(n)}

====
